---------------------------- MODULE Spec2Model ----------------------------
(***************************************************************************)
(* A model of water_consumption_bot.py: a Telegram bot that stores water   *)
(* consumption records in one SQLite table and answers daily and weekly    *)
(* leaderboard requests, by text command or by inline button.              *)
(*                                                                         *)
(* Amounts are Python floats.  The model keeps them as records             *)
(*   [k |-> "num", h |-> hundredths of a liter]  | [k |-> "inf", h |-> +-1]*)
(*   | [k |-> "nan", h |-> 0]                                              *)
(* and a value read back from SQLite may also be [k |-> "null", h |-> 0].  *)
(* Every numeric token of the model is a multiple of 0.25, for which       *)
(* binary floating point addition is exact, so hundredths are exact too.   *)
(*                                                                         *)
(* Instants are [day, sec, usec]: a day of January 2024 (2024-01-01 is a   *)
(* Monday), the second of that day and the microsecond of that second.     *)
(* Text that the code takes apart (command arguments, callback data) and   *)
(* text that SQLite compares (timestamps) is a sequence of one-character   *)
(* strings; text that is only sent is a string.                            *)
(***************************************************************************)
EXTENDS Integers, Sequences, FiniteSets, TLC

VARIABLES
    consumption,      \* the rows of table consumption, in insertion order
    sqlite_sequence,  \* the largest id AUTOINCREMENT has handed out
    utc,              \* the host's clock, as a UTC instant
    tz,               \* the host's local UTC offset, in seconds
    reply,            \* the message the last handler sent
    event,            \* which handler ran last, on what input (history)
    fetched,          \* the last leaderboard query: bounds, rows matched, result
    hist              \* per row: the instants at which its handler ran (history)

vars == <<consumption, sqlite_sequence, utc, tz, reply, event, fetched, hist>>

-----------------------------------------------------------------------------
(* Bounds of the model.                                                    *)

MaxRecords == 2
MaxDay == 10

-----------------------------------------------------------------------------
(* Generic helpers.                                                        *)

SeqRange(s) == {s[i] : i \in 1..Len(s)}

RECURSIVE SumH(_, _)
SumH(f, S) ==
    IF S = {} THEN 0
    ELSE LET x == CHOOSE y \in S : TRUE IN f[x] + SumH(f, S \ {x})

SubSeqFrom(s, i) == IF i > Len(s) THEN <<>> ELSE SubSeq(s, i, Len(s))

-----------------------------------------------------------------------------
(* Clock: datetime.datetime.now(), date(), combine, timedelta, weekday.    *)

Instant(d, s, u) == [day |-> d, sec |-> s, usec |-> u]

TimeLT(a, b) ==
    \/ a.day < b.day
    \/ a.day = b.day /\ a.sec < b.sec
    \/ a.day = b.day /\ a.sec = b.sec /\ a.usec < b.usec

TimeLE(a, b) == a = b \/ TimeLT(a, b)

\* datetime.datetime.now(): the naive wall-clock time of the host's zone.
LocalOf(t, offset) ==
    LET s == t.sec + offset
    IN  Instant(t.day + (s \div 86400), s % 86400, t.usec)

now == LocalOf(utc, tz)

\* datetime.time.min and datetime.time.max, combined with a date.
combine_min(d) == Instant(d, 0, 0)
combine_max(d) == Instant(d, 86399, 999999)

\* Faulty variant of weekday: date.isoweekday(), on which Monday is 1.
weekday_iso(d) == ((d - 1) % 7) + 1

\* date.weekday(): Monday is 0.  2024-01-01 is a Monday.
weekday(d) == (d - 1) % 7

-----------------------------------------------------------------------------
(* sqlite3's default datetime adapter: datetime.isoformat(" ").            *)

Digit(n) == CASE n = 0 -> "0" [] n = 1 -> "1" [] n = 2 -> "2" [] n = 3 -> "3"
              [] n = 4 -> "4" [] n = 5 -> "5" [] n = 6 -> "6" [] n = 7 -> "7"
              [] n = 8 -> "8" [] n = 9 -> "9"

\* n written with exactly w digits, zero padded.
RECURSIVE Pad(_, _)
Pad(n, w) == IF w = 0 THEN <<>> ELSE Append(Pad(n \div 10, w - 1), Digit(n % 10))

\* "YYYY-MM-DD HH:MM:SS", and ".ffffff" only when the microsecond is not 0.
isoformat(t) ==
    <<"2", "0", "2", "4", "-", "0", "1", "-">> \o Pad(t.day, 2) \o <<" ">>
        \o Pad(t.sec \div 3600, 2) \o <<":">> \o Pad((t.sec % 3600) \div 60, 2)
        \o <<":">> \o Pad(t.sec % 60, 2)
        \o (IF t.usec = 0 THEN <<>> ELSE <<".">> \o Pad(t.usec, 6))

\* The byte value of a character of a timestamp (ASCII).
Ord(c) == CASE c = " " -> 32 [] c = "-" -> 45 [] c = "." -> 46 [] c = ":" -> 58
            [] c = "0" -> 48 [] c = "1" -> 49 [] c = "2" -> 50 [] c = "3" -> 51
            [] c = "4" -> 52 [] c = "5" -> 53 [] c = "6" -> 54 [] c = "7" -> 55
            [] c = "8" -> 56 [] c = "9" -> 57

\* SQLite's BINARY collation on TEXT: memcmp, and on a tie the shorter is less.
RECURSIVE TextLT(_, _)
TextLT(a, b) ==
    IF b = <<>> THEN FALSE
    ELSE IF a = <<>> THEN TRUE
    ELSE IF Ord(Head(a)) # Ord(Head(b)) THEN Ord(Head(a)) < Ord(Head(b))
    ELSE TextLT(Tail(a), Tail(b))

\* Faulty variant of Between: the half-open  x >= lo AND x < hi.
Between_half_open(x, lo, hi) == ~TextLT(x, lo) /\ TextLT(x, hi)

\* x BETWEEN lo AND hi  is  x >= lo AND x <= hi.
Between(x, lo, hi) == ~TextLT(x, lo) /\ ~TextLT(hi, x)

-----------------------------------------------------------------------------
(* Python's float(): parsing a token, and repr() as an f-string prints it. *)

Num(h) == [k |-> "num", h |-> h]
Inf(sign) == [k |-> "inf", h |-> sign]
NaN == [k |-> "nan", h |-> 0]
Null == [k |-> "null", h |-> 0]

DigitChars == {"0", "1", "2", "3", "4", "5", "6", "7", "8", "9"}

DigitVal(c) == Ord(c) - 48

RECURSIVE ToInt(_)
ToInt(s) == IF s = <<>> THEN 0 ELSE 10 * ToInt(SubSeq(s, 1, Len(s) - 1)) + DigitVal(s[Len(s)])

\* A decimal literal without its sign: digits with at most one point (dots is
\* the set of its positions) and at least one digit; the model reads at most
\* two fraction digits.
FloatDecimal(body, sign, dots, dot) ==
    IF /\ Cardinality(dots) <= 1
       /\ \A i \in 1..Len(body) : body[i] \in DigitChars \/ i \in dots
       /\ Len(body) - Cardinality(dots) >= 1
    THEN [ok |-> TRUE,
          v |-> Num(sign * (100 * ToInt(SubSeq(body, 1, dot - 1))
                            + ToInt(SubSeq(SubSeqFrom(body, dot + 1) \o <<"0", "0">>, 1, 2))))]
    ELSE [ok |-> FALSE, v |-> NaN]

FloatUnsigned(body, sign) ==
    IF body = <<"i", "n", "f">> THEN [ok |-> TRUE, v |-> Inf(sign)]
    ELSE IF body = <<"n", "a", "n">> THEN [ok |-> TRUE, v |-> NaN]
    ELSE FloatDecimal(body, sign, {i \in 1..Len(body) : body[i] = "."},
                      IF \E i \in 1..Len(body) : body[i] = "."
                      THEN CHOOSE i \in 1..Len(body) : body[i] = "."
                      ELSE Len(body) + 1)

\* float(s): [ok |-> FALSE] stands for ValueError.  Decimal literals with an
\* optional sign, and the words inf and nan.
float(s) ==
    IF s # <<>> /\ Head(s) \in {"-", "+"}
    THEN FloatUnsigned(Tail(s), IF Head(s) = "-" THEN -1 ELSE 1)
    ELSE FloatUnsigned(s, 1)

\* repr of a float, as f"{amount}" prints it; None for a NULL read back.
FloatRepr(v) ==
    LET a    == IF v.h < 0 THEN -v.h ELSE v.h
        frac == a % 100
    IN  CASE v.k = "null" -> "None"
          [] v.k = "nan"  -> "nan"
          [] v.k = "inf"  -> IF v.h < 0 THEN "-inf" ELSE "inf"
          [] v.k = "num"  ->
                (IF v.h < 0 THEN "-" ELSE "") \o ToString(a \div 100) \o "."
                \o (IF frac % 10 = 0 THEN ToString(frac \div 10)
                    ELSE ToString(frac \div 10) \o ToString(frac % 10))

-----------------------------------------------------------------------------
(* The SQLite table and the two statements the code runs on it.            *)

\* Binding a Python float: SQLite stores a NaN as NULL.
BindReal(v) == IF v.k = "nan" THEN Null ELSE v

\* Faulty variant of Insert: the timestamp is cut to the date.
Insert_date_only(rows, seq, user, amount, stamp) ==
    Append(rows, [id |-> seq + 1, user_id |-> user.id, username |-> user.username,
                  amount |-> BindReal(amount), date |-> isoformat(Instant(stamp.day, 0, 0))])

\* Faulty variant of Insert: INSERT OR REPLACE with one row per user.
Insert_or_replace(rows, seq, user, amount, stamp) ==
    IF \E i \in 1..Len(rows) : rows[i].user_id = user.id
    THEN [i \in 1..Len(rows) |->
            IF rows[i].user_id = user.id
            THEN [id |-> seq + 1, user_id |-> user.id, username |-> user.username,
                  amount |-> BindReal(amount), date |-> isoformat(stamp)]
            ELSE rows[i]]
    ELSE Append(rows, [id |-> seq + 1, user_id |-> user.id, username |-> user.username,
                       amount |-> BindReal(amount), date |-> isoformat(stamp)])

\* INSERT INTO consumption (user_id, username, amount, date) VALUES (?, ?, ?, ?)
\* followed by conn.commit(); id is AUTOINCREMENT.
Insert(rows, seq, user, amount, stamp) ==
    Append(rows, [id |-> seq + 1, user_id |-> user.id, username |-> user.username,
                  amount |-> BindReal(amount), date |-> isoformat(stamp)])

\* SUM(amount) of the rows in S (a set of row indices): NULLs are skipped, no
\* value at all gives NULL, and a sum that is not a number is returned as NULL.
SqlSum(rows, S) ==
    IF \A i \in S : rows[i].amount.k = "null" THEN Null
    ELSE IF \E i \in S : rows[i].amount.k = "inf" /\ rows[i].amount.h > 0
    THEN IF \E i \in S : rows[i].amount.k = "inf" /\ rows[i].amount.h < 0
         THEN Null ELSE Inf(1)
    ELSE IF \E i \in S : rows[i].amount.k = "inf" /\ rows[i].amount.h < 0 THEN Inf(-1)
    ELSE Num(SumH([i \in S |-> IF rows[i].amount.k = "num" THEN rows[i].amount.h ELSE 0], S))

\* The order ORDER BY uses: NULL is less than any number.
SqlRank(v) ==
    CASE v.k = "null" -> 0
      [] v.k = "inf" /\ v.h < 0 -> 1
      [] v.k = "num" -> 2
      [] OTHER -> 3

SqlLT(a, b) ==
    \/ SqlRank(a) < SqlRank(b)
    \/ a.k = "num" /\ b.k = "num" /\ a.h < b.h

\* WHERE date BETWEEN ? AND ?, both bounds bound as text: the indices matched.
Where(rows, lo, hi) == {i \in 1..Len(rows) : Between(rows[i].date, lo, hi)}

Matched(rows, lo, hi) == Where(rows, isoformat(lo), isoformat(hi))

\* ORDER BY total DESC over the groups, and the bare column username: every
\* result the statement may return.  total maps a user_id to its SUM; username
\* comes from some row of the group; equal totals come in any order.
OrderBy(rows, m, groups, n, total) ==
    UNION {{[i \in 1..n |-> [username |-> nm[i], total |-> total[p[i]]]] :
              nm \in {f \in [1..n -> {rows[i].username : i \in m}] :
                        \A i \in 1..n :
                           \E r \in m : rows[r].user_id = p[i] /\ rows[r].username = f[i]}} :
           p \in {q \in [1..n -> groups] :
                    /\ \A i, j \in 1..n : i # j => q[i] # q[j]
                    /\ \A i, j \in 1..n : i < j => ~SqlLT(total[q[i]], total[q[j]])}}

\* GROUP BY user_id with SUM(amount), over the matched rows m.
GroupBy(rows, m, groups) ==
    OrderBy(rows, m, groups, Cardinality(groups),
            [g \in groups |-> SqlSum(rows, {i \in m : rows[i].user_id = g})])

\* SELECT username, SUM(amount) as total FROM consumption
\* WHERE date BETWEEN ? AND ? GROUP BY user_id ORDER BY total DESC
Select(rows, m) == GroupBy(rows, m, {rows[i].user_id : i \in m})

-----------------------------------------------------------------------------
(* What the handlers compute.  A message is the sequence of its lines.     *)

NoInstant == Instant(0, 0, 0)
NoFetch == [lo |-> NoInstant, hi |-> NoInstant, ids |-> {}, rows |-> <<>>]
NoReply == [via |-> "none", text |-> <<>>, markup |-> <<>>]

Text(via, lines) == [via |-> via, text |-> lines, markup |-> <<>>]

\* The inline keyboard of start: the callback data of its buttons.
keyboard ==
    << <<"l", "o", "g", "_", "0", ".", "2", "5">>,
       <<"l", "o", "g", "_", "0", ".", "5">>,
       <<"l", "o", "g", "_", "1", ".", "0">>,
       <<"c", "u", "s", "t", "o", "m">>,
       <<"l", "b", "_", "d", "a", "i", "l", "y">>,
       <<"l", "b", "_", "w", "e", "e", "k", "l", "y">> >>

welcome_message ==
    << "Welcome to the Water Tracker Bot!",
       "Use the buttons below for quick logging of your water consumption and to view leaderboards.",
       "",
       "Alternatively, use /log <amount in liters> to record a custom amount.",
       "For example: /log 0.5 ",
       "",
       "Leaderboards: /leaderboard_daily or /leaderboard_weekly." >>

\* data.startswith(prefix)
startswith(data, prefix) ==
    Len(data) >= Len(prefix) /\ SubSeq(data, 1, Len(prefix)) = prefix

\* data.split("_")[1]: [ok |-> FALSE] stands for IndexError.
split_1(data) ==
    LET us == {i \in 1..Len(data) : data[i] = "_"}
        p1 == CHOOSE i \in us : \A j \in us : i <= j
        r  == {i \in us : i > p1}
        p2 == IF r = {} THEN Len(data) + 1 ELSE CHOOSE i \in r : \A j \in r : i <= j
    IN  IF us = {} THEN [ok |-> FALSE, s |-> <<>>]
        ELSE [ok |-> TRUE, s |-> IF p2 = p1 + 1 THEN <<>> ELSE SubSeq(data, p1 + 1, p2 - 1)]

\* The lines a leaderboard loop writes under its header.
RankLines(rows) ==
    [i \in 1..Len(rows) |->
        ToString(i) \o ". " \o rows[i].username \o ": " \o FloatRepr(rows[i].total)
            \o " liters"]

\* Faulty variant of Message: the header is written whatever the result.
Message_always_header(res, header, nothing) == <<header>> \o RankLines(res)

\* The message of a leaderboard whose query returned res.
Message(res, header, nothing) ==
    IF res # <<>> THEN <<header>> \o RankLines(res) ELSE <<nothing>>

Fetch(rows, lo, hi, m, header, nothing) ==
    {[fetched |-> [lo |-> lo, hi |-> hi, ids |-> {rows[i].id : i \in m}, rows |-> res],
      message |-> Message(res, header, nothing)] : res \in Select(rows, m)}

\* Query and message of a leaderboard: every [fetched, message] it may give.
Leaderboard(rows, lo, hi, header, nothing) ==
    Fetch(rows, lo, hi, Matched(rows, lo, hi), header, nothing)

\* start_of_week = today - timedelta(days=today.weekday())
start_of_week(today) == today - weekday(today)

\* The insert and the confirmation both log handlers end with, or the reply
\* `failure` when the amount did not parse.
Logged(rows, seq, user, parsed, stamp, failure) ==
    IF ~parsed.ok
    THEN [ok |-> FALSE, rows |-> rows, seq |-> seq, text |-> <<failure>>]
    ELSE [ok |-> TRUE, rows |-> Insert(rows, seq, user, parsed.v, stamp), seq |-> seq + 1,
          text |-> <<"Logged " \o FloatRepr(parsed.v) \o " liters for "
                      \o user.username \o ".">>]

\* Faulty variant of log_water_amount: a quarter liter when no amount is given.
log_water_amount_default(args) ==
    IF args = <<>> THEN [ok |-> TRUE, v |-> Num(25)] ELSE float(args[1])

\* The amount of log_water: float(context.args[0]); IndexError without args.
log_water_amount(args) ==
    IF args = <<>> THEN [ok |-> FALSE, v |-> NaN] ELSE float(args[1])

\* The amount of a "log_" button: float(data.split("_")[1]).
SplitFloat(field) == IF ~field.ok THEN [ok |-> FALSE, v |-> NaN] ELSE float(field.s)

button_amount(data) == SplitFloat(split_1(data))

\* log_water, lines 164-181, run on table rows with the clock read as stamp.
log_water_result(rows, seq, user, args, stamp) ==
    Logged(rows, seq, user, log_water_amount(args), stamp,
           "Usage: /log <amount in liters>")

\* button_handler, lines 89-104: the branch of data that starts with "log_".
button_log_result(rows, seq, user, data, stamp) ==
    Logged(rows, seq, user, button_amount(data), stamp,
           "Error: could not parse water amount.")

\* leaderboard_daily, lines 185-203.
leaderboard_daily_result(rows, clock) ==
    LET today == clock.day
    IN  Leaderboard(rows, combine_min(today), combine_max(today),
                    "Daily Leaderboard:", "No water consumption logged today.")

\* leaderboard_weekly, lines 209-229.
leaderboard_weekly_result(rows, clock) ==
    LET today == clock.day
    IN  Leaderboard(rows, combine_min(start_of_week(today)), combine_max(today),
                    "Weekly Leaderboard (since Monday):",
                    "No water consumption logged this week.")

\* button_handler, lines 110-130: data == "lb_daily".
button_lb_daily_result(rows, clock) ==
    LET today == clock.day
    IN  Leaderboard(rows, combine_min(today), combine_max(today),
                    "Daily Leaderboard:", "No water consumption logged today.")

\* Faulty variant of button_lb_weekly_result: the window of the daily board.
button_lb_weekly_from_today(rows, clock) ==
    Leaderboard(rows, combine_min(clock.day), combine_max(clock.day),
                "Weekly Leaderboard (since Monday):",
                "No water consumption logged this week.")

\* button_handler, lines 134-155: data == "lb_weekly".
button_lb_weekly_result(rows, clock) ==
    LET today == clock.day
    IN  Leaderboard(rows, combine_min(start_of_week(today)), combine_max(today),
                    "Weekly Leaderboard (since Monday):",
                    "No water consumption logged this week.")

-----------------------------------------------------------------------------
(* The handlers main() registers, one action each, and the environment.    *)

Ev(kind, args, data, ok, begun, ended) ==
    [kind |-> kind, args |-> args, data |-> data, ok |-> ok,
     begun |-> begun, ended |-> ended]

\* CommandHandler("start", start)
start ==
    /\ reply' = [via |-> "reply_text", text |-> welcome_message, markup |-> keyboard]
    /\ event' = Ev("start", <<>>, <<>>, TRUE, now, now)
    /\ fetched' = NoFetch
    /\ UNCHANGED <<consumption, sqlite_sequence, utc, tz, hist>>

\* What a log handler leaves behind: r is its result, t1 the instant at which
\* it read datetime.now() and t2 the instant at which it returned.
Commit(r, via, kind, args, data, t1, t2) ==
    /\ IF r.ok THEN Len(consumption) < MaxRecords ELSE t1 = utc /\ t2 = utc
    /\ consumption' = r.rows
    /\ sqlite_sequence' = r.seq
    /\ hist' = IF r.ok THEN Append(hist, [utc |-> t1, tz |-> tz]) ELSE hist
    /\ reply' = Text(via, r.text)
    /\ event' = Ev(kind, args, data, r.ok, now, LocalOf(t2, tz))
    /\ fetched' = NoFetch
    /\ utc' = t2

\* CommandHandler("log", log_water).  The handler is entered at the clock's
\* present value, reads datetime.now() at t1 and returns at t2.
log_water(user, args, t1, t2) ==
    /\ TimeLE(utc, t1) /\ TimeLE(t1, t2)
    /\ Commit(log_water_result(consumption, sqlite_sequence, user, args, LocalOf(t1, tz)),
              "reply_text", "log", args, <<>>, t1, t2)
    /\ UNCHANGED tz

\* CommandHandler("leaderboard_daily", leaderboard_daily)
leaderboard_daily ==
    /\ \E o \in leaderboard_daily_result(consumption, now) :
          /\ reply' = Text("reply_text", o.message)
          /\ fetched' = o.fetched
    /\ event' = Ev("leaderboard_daily", <<>>, <<>>, TRUE, now, now)
    /\ UNCHANGED <<consumption, sqlite_sequence, utc, tz, hist>>

\* CommandHandler("leaderboard_weekly", leaderboard_weekly)
leaderboard_weekly ==
    /\ \E o \in leaderboard_weekly_result(consumption, now) :
          /\ reply' = Text("reply_text", o.message)
          /\ fetched' = o.fetched
    /\ event' = Ev("leaderboard_weekly", <<>>, <<>>, TRUE, now, now)
    /\ UNCHANGED <<consumption, sqlite_sequence, utc, tz, hist>>

\* CallbackQueryHandler(button_handler)
button_handler(user, data, t1, t2) ==
    /\ TimeLE(utc, t1) /\ TimeLE(t1, t2)
    /\ IF startswith(data, <<"l", "o", "g", "_">>)
       THEN Commit(button_log_result(consumption, sqlite_sequence, user, data,
                                     LocalOf(t1, tz)),
                   "edit_message_text", "button", <<>>, data, t1, t2)
       ELSE /\ t1 = utc /\ t2 = utc
            /\ event' = Ev("button", <<>>, data, TRUE, now, now)
            /\ UNCHANGED <<consumption, sqlite_sequence, utc, hist>>
            /\ IF data = <<"c", "u", "s", "t", "o", "m">>
               THEN /\ reply' = Text("edit_message_text",
                        <<"To log a custom amount, please use the /log command followed by the amount in liters.",
                          "Example: /log 0.75">>)
                    /\ fetched' = NoFetch
               ELSE IF data = <<"l", "b", "_", "d", "a", "i", "l", "y">>
               THEN \E o \in button_lb_daily_result(consumption, now) :
                        /\ reply' = Text("edit_message_text", o.message)
                        /\ fetched' = o.fetched
               ELSE IF data = <<"l", "b", "_", "w", "e", "e", "k", "l", "y">>
               THEN \E o \in button_lb_weekly_result(consumption, now) :
                        /\ reply' = Text("edit_message_text", o.message)
                        /\ fetched' = o.fetched
               ELSE /\ reply' = Text("edit_message_text", <<"Unknown action.">>)
                    /\ fetched' = NoFetch
    /\ UNCHANGED tz

\* Time passes on the host.
Tick(t) ==
    /\ TimeLT(utc, t)
    /\ utc' = t
    /\ UNCHANGED <<consumption, sqlite_sequence, tz, reply, event, fetched, hist>>

\* The host's local offset changes (daylight saving, or the bot is restarted
\* on the same database file under another zone).
set_timezone(z) ==
    /\ z # tz
    /\ tz' = z
    /\ UNCHANGED <<consumption, sqlite_sequence, utc, reply, event, fetched, hist>>

-----------------------------------------------------------------------------
(* Inputs.                                                                 *)

alice == [id |-> 1, username |-> "alice"]
bob   == [id |-> 2, username |-> "bob"]
bobby == [id |-> 2, username |-> "bobby"]   \* user 2 after renaming

Users == {alice, bob, bobby}

\* context.args of /log.
Args ==
    { <<>>, << <<"a", "b", "c">> >>,
      << <<"0", ".", "2", "5">> >>, << <<"0", ".", "5">> >>, << <<"1", ".", "0">> >>,
      << <<"-", "1">> >>, << <<"n", "a", "n">> >> }

\* Callback data: the keyboard's, and two that only a modified client sends.
ButtonData ==
    SeqRange(keyboard) \cup { <<"h", "e", "l", "p">>, <<"l", "o", "g", "_", "a", "b", "c">> }

\* The instant after a in T, and a itself: how far a handler lets time pass.
Soon(T, a) ==
    {a} \cup {t \in T : TimeLT(a, t) /\ \A s \in T : TimeLT(a, s) => TimeLE(t, s)}

Earliest(T) == CHOOSE t \in T : \A s \in T : TimeLE(t, s)

\* Spec: every user and input, on a host on UTC whose clock stands at noon of
\* Monday 2024-01-08 or of Tuesday (the handlers of this specification take no
\* time).
Instants == {Instant(MaxDay - 2, 43200, 0), Instant(MaxDay - 1, 43200, 0)}

Init ==
    /\ consumption = <<>>
    /\ sqlite_sequence = 0
    /\ utc = Earliest(Instants)
    /\ tz = 0
    /\ reply = NoReply
    /\ event = Ev("none", <<>>, <<>>, TRUE, NoInstant, NoInstant)
    /\ fetched = NoFetch
    /\ hist = <<>>

Next ==
    \/ start
    \/ \E user \in Users, args \in Args : log_water(user, args, utc, utc)
    \/ leaderboard_daily
    \/ leaderboard_weekly
    \/ \E user \in Users, data \in ButtonData : button_handler(user, data, utc, utc)
    \/ \E t \in Instants : Tick(t)

Spec == Init /\ [][Next]_vars

\* SpecClock: one user and one amount, a clock that runs over the first and
\* last instant and the noon of Sunday 2024-01-07, Monday and Wednesday, and
\* a host whose zone is UTC or UTC+12.
ClockUsers == {alice}

ClockArgs == { << <<"0", ".", "5">> >> }

ClockData ==
    { <<"l", "o", "g", "_", "0", ".", "5">>, <<"l", "b", "_", "d", "a", "i", "l", "y">>,
      <<"l", "b", "_", "w", "e", "e", "k", "l", "y">> }

TimesOfDay == { <<0, 0>>, <<43200, 0>>, <<86399, 999999>> }

ClockDays == {MaxDay - 3, MaxDay - 2, MaxDay}

ClockInstants == {Instant(d, t[1], t[2]) : d \in ClockDays, t \in TimesOfDay}

Zones == {0, 43200}

InitClock ==
    /\ consumption = <<>>
    /\ sqlite_sequence = 0
    /\ utc = Earliest(ClockInstants)
    /\ tz \in Zones
    /\ reply = NoReply
    /\ event = Ev("none", <<>>, <<>>, TRUE, NoInstant, NoInstant)
    /\ fetched = NoFetch
    /\ hist = <<>>

NextClock ==
    \/ \E user \in ClockUsers, args \in ClockArgs :
         \E t1 \in Soon(ClockInstants, utc) : \E t2 \in Soon(ClockInstants, t1) :
            log_water(user, args, t1, t2)
    \/ leaderboard_daily
    \/ leaderboard_weekly
    \/ \E user \in ClockUsers, data \in ClockData :
         \E t1 \in Soon(ClockInstants, utc) : \E t2 \in Soon(ClockInstants, t1) :
            button_handler(user, data, t1, t2)
    \/ \E t \in ClockInstants : Tick(t)
    \/ \E z \in Zones : set_timezone(z)

SpecClock == InitClock /\ [][NextClock]_vars

-----------------------------------------------------------------------------
(* What the claims speak of, read off the state.                           *)

\* The instant a stored timestamp denotes, as a reader of the table sees it.
ReadStamp(d) ==
    Instant(ToInt(SubSeq(d, 9, 10)),
            3600 * ToInt(SubSeq(d, 12, 13)) + 60 * ToInt(SubSeq(d, 15, 16))
                + ToInt(SubSeq(d, 18, 19)),
            IF Len(d) > 19 THEN ToInt(SubSeq(d, 21, 26)) ELSE 0)

\* The liters a decimal token of the inputs stands for, in hundredths.
Liters(token) ==
    CASE token = <<"0", ".", "2", "5">> -> 25
      [] token = <<"0", ".", "5">> -> 50
      [] token = <<"1", ".", "0">> -> 100
      [] token = <<"-", "1">> -> -100

DecimalTokens ==
    { <<"0", ".", "2", "5">>, <<"0", ".", "5">>, <<"1", ".", "0">>, <<"-", "1">> }

PositiveTokens == {t \in DecimalTokens : Liters(t) > 0}

\* Tokens that are no number in any notation.
NonNumericTokens == { <<"a", "b", "c">> }

AllUsers == Users \cup ClockUsers
AllArgs == Args \cup ClockArgs

LbDaily == <<"l", "b", "_", "d", "a", "i", "l", "y">>
LbWeekly == <<"l", "b", "_", "w", "e", "e", "k", "l", "y">>
LogData(token) == <<"l", "o", "g", "_">> \o token

IsDaily == event.kind = "leaderboard_daily" \/ (event.kind = "button" /\ event.data = LbDaily)
IsWeekly == event.kind = "leaderboard_weekly" \/ (event.kind = "button" /\ event.data = LbWeekly)
IsLeaderboard == IsDaily \/ IsWeekly

\* The day on which the last request was made, on the host's calendar.
Today == event.begun.day

Mondays == {1, 8, 15, 22, 29}
Wednesdays == {3, 10, 17, 24, 31}

\* The Monday at or before day d.
MondayOf(d) == CHOOSE m \in Mondays : m <= d /\ d - m <= 6

\* The window the last request is to cover.
WindowStart == IF IsWeekly THEN Instant(MondayOf(Today), 0, 0) ELSE Instant(Today, 0, 0)
WindowEnd == Instant(Today, 86399, 999999)

\* The rows (indices) whose timestamp lies in the closed interval [lo, hi].
RowsIn(lo, hi) ==
    {i \in 1..Len(consumption) :
        TimeLE(lo, ReadStamp(consumption[i].date)) /\ TimeLE(ReadStamp(consumption[i].date), hi)}

InWindow == RowsIn(WindowStart, WindowEnd)

UsersIn(S) == {consumption[i].user_id : i \in S}

\* One microsecond before and after an instant of the model's calendar.
MicroBefore(t) ==
    IF t.usec > 0 THEN Instant(t.day, t.sec, t.usec - 1)
    ELSE IF t.sec > 0 THEN Instant(t.day, t.sec - 1, 999999)
    ELSE Instant(t.day - 1, 86399, 999999)

MicroAfter(t) ==
    IF t.usec < 999999 THEN Instant(t.day, t.sec, t.usec + 1)
    ELSE IF t.sec < 86399 THEN Instant(t.day, t.sec + 1, 0)
    ELSE Instant(t.day + 1, 0, 0)

-----------------------------------------------------------------------------
(* The claims.                                                             *)

LastRow == consumption[Len(consumption)]

\* C1: a /log whose argument is a positive number adds exactly one record: the
\* rows before it are kept, and the new row carries the amount, the sender's id
\* and name and a timestamp between the handler's entry and its return.
C1_LogAddsOneRecord ==
    [][\A user \in AllUsers, args \in AllArgs :
         \A t1 \in {t \in ClockInstants \cup Instants : TimeLE(utc, t) /\ TimeLE(t, utc')} :
            (/\ args # <<>>
             /\ args[1] \in PositiveTokens
             /\ event'.kind = "log" /\ event'.args = args
             /\ log_water(user, args, t1, utc'))
            => /\ Len(consumption') = Len(consumption) + 1
               /\ SubSeq(consumption', 1, Len(consumption)) = consumption
               /\ consumption'[Len(consumption')].user_id = user.id
               /\ consumption'[Len(consumption')].username = user.username
               /\ consumption'[Len(consumption')].amount = Num(Liters(args[1]))
               /\ TimeLE(LocalOf(utc, tz), ReadStamp(consumption'[Len(consumption')].date))
               /\ TimeLE(ReadStamp(consumption'[Len(consumption')].date), LocalOf(utc', tz))
      ]_vars

\* C1 witness: a /log was handled, time passed before and after it read the
\* clock, and its row is stamped strictly inside the handling.
C1_Witness ==
    /\ event.kind = "log" /\ event.ok
    /\ event.args[1] \in PositiveTokens
    /\ LastRow.amount = Num(Liters(event.args[1]))
    /\ TimeLT(event.begun, ReadStamp(LastRow.date))
    /\ TimeLT(ReadStamp(LastRow.date), event.ended)

\* C2: a /log without an argument or with a non-numeric one leaves the table as
\* it was and replies with the usage message.
C2_BadArgumentWritesNothing ==
    [][\A user \in AllUsers, args \in AllArgs :
         (/\ (args = <<>> \/ args[1] \in NonNumericTokens)
          /\ event'.kind = "log" /\ event'.args = args
          /\ log_water(user, args, utc, utc'))
         => /\ consumption' = consumption
            /\ sqlite_sequence' = sqlite_sequence
            /\ reply'.text = <<"Usage: /log <amount in liters>">>
      ]_vars

\* C2 witness: a table with rows, then /log abc answered with the usage message.
C2_Witness ==
    /\ event.kind = "log" /\ ~event.ok
    /\ event.args = << <<"a", "b", "c">> >>
    /\ consumption # <<>>
    /\ reply.text = <<"Usage: /log <amount in liters>">>

\* The sum of the amounts of the rows S, a row without a number adding nothing.
AmountSum(S) ==
    IF \E i \in S : consumption[i].amount.k = "inf" THEN Inf(1)
    ELSE Num(SumH([i \in S |-> IF consumption[i].amount.k = "num"
                                THEN consumption[i].amount.h ELSE 0], S))

TotalLE(a, b) ==
    \/ b.k = "inf" /\ b.h > 0
    \/ a.k = "num" /\ b.k = "num" /\ a.h <= b.h

\* C3: a leaderboard has exactly one entry per user with a row in the window,
\* under one of that user's names, its total the sum of that user's amounts in
\* the window, and the entries are in non-increasing order of total.
C3_OneEntryPerUserSummedAndRanked ==
    IsLeaderboard =>
        /\ Len(fetched.rows) = Cardinality(UsersIn(InWindow))
        /\ \E p \in [1..Len(fetched.rows) -> UsersIn(InWindow)] :
              /\ \A i, j \in 1..Len(fetched.rows) : i # j => p[i] # p[j]
              /\ \A i \in 1..Len(fetched.rows) :
                    /\ fetched.rows[i].total
                         = AmountSum({r \in InWindow : consumption[r].user_id = p[i]})
                    /\ \E r \in InWindow : /\ consumption[r].user_id = p[i]
                                           /\ consumption[r].username = fetched.rows[i].username
        /\ \A i, j \in 1..Len(fetched.rows) :
              i < j => TotalLE(fetched.rows[j].total, fetched.rows[i].total)

\* C4: every stored amount is a finite positive number.
C4_AmountsFinitePositive ==
    \A i \in 1..Len(consumption) :
        consumption[i].amount.k = "num" /\ consumption[i].amount.h > 0

\* C5: the window of a leaderboard runs from 00:00:00.000000 of its first day
\* to 23:59:59.999999 of today and is closed: a row is counted exactly when its
\* timestamp lies in it, so a row at either end is counted and a row one
\* microsecond outside either end is not.
C5_WindowIsClosed ==
    IsLeaderboard =>
        /\ fetched.lo.sec = 0 /\ fetched.lo.usec = 0
        /\ fetched.hi = Instant(Today, 86399, 999999)
        /\ \A i \in 1..Len(consumption) :
              /\ consumption[i].id \in fetched.ids
                   <=> i \in RowsIn(fetched.lo, fetched.hi)
              /\ ReadStamp(consumption[i].date) \in {fetched.lo, fetched.hi}
                   => consumption[i].id \in fetched.ids
              /\ ReadStamp(consumption[i].date)
                      \in {MicroBefore(fetched.lo), MicroAfter(fetched.hi)}
                   => consumption[i].id \notin fetched.ids

\* C5 witness: a leaderboard that counted a row stamped at the first instant of
\* its window and left out a row stamped one microsecond after its last.
C5_Witness ==
    /\ IsLeaderboard
    /\ \E i \in 1..Len(consumption) :
          /\ ReadStamp(consumption[i].date) = fetched.lo
          /\ consumption[i].id \in fetched.ids
    /\ \E i \in 1..Len(consumption) :
          /\ ReadStamp(consumption[i].date) = MicroAfter(fetched.hi)
          /\ consumption[i].id \notin fetched.ids

\* C6: the weekly window starts at 00:00:00 of the Monday at or before today
\* (the code's Monday is that Monday on every day of the month) and ends with
\* today; asked on a Wednesday it counts the rows from Monday 00:00:00 up to
\* now and no row of the Sunday before.
C6_WeeklyWindowFromMonday ==
    IsWeekly =>
        /\ \A d \in 1..31 : start_of_week(d) = MondayOf(d)
        /\ fetched.lo = Instant(MondayOf(Today), 0, 0)
        /\ fetched.hi = Instant(Today, 86399, 999999)
        /\ Today \in Mondays => fetched.lo.day = Today
        /\ Today \in Wednesdays =>
              \A i \in 1..Len(consumption) :
                 /\ i \in RowsIn(Instant(Today - 2, 0, 0), event.begun)
                      => consumption[i].id \in fetched.ids
                 /\ ReadStamp(consumption[i].date).day = Today - 3
                      => consumption[i].id \notin fetched.ids

\* C6 witness: a weekly leaderboard asked on a Wednesday that counted a row
\* stamped Monday 00:00:00 and left out a row of the Sunday before.
C6_Witness ==
    /\ IsWeekly
    /\ Today \in Wednesdays
    /\ \E i \in 1..Len(consumption) :
          /\ ReadStamp(consumption[i].date) = Instant(Today - 2, 0, 0)
          /\ consumption[i].id \in fetched.ids
    /\ \E i \in 1..Len(consumption) :
          /\ ReadStamp(consumption[i].date).day = Today - 3
          /\ consumption[i].id \notin fetched.ids

\* C7: every stored timestamp is the UTC instant at which the row was logged.
C7_StoredInUTC ==
    \A i \in 1..Len(consumption) : ReadStamp(consumption[i].date) = hist[i].utc

\* C8: the table only grows, by one row per successful log and by nothing
\* otherwise: the rows it had stay as they were, ids are distinct and increase,
\* and there are as many rows as successful log operations.
C8_AppendOnly ==
    [][/\ Len(consumption') \in {Len(consumption), Len(consumption) + 1}
       /\ SubSeq(consumption', 1, Len(consumption)) = consumption
       /\ \A i, j \in 1..Len(consumption') :
             i < j => consumption'[i].id < consumption'[j].id
       /\ Len(consumption') = Len(hist')
       /\ consumption' # consumption
             => /\ event'.ok
                /\ \/ event'.kind = "log"
                   \/ event'.kind = "button" /\ startswith(event'.data, <<"l", "o", "g", "_">>)
       /\ (\/ event'.kind \in {"start", "leaderboard_daily", "leaderboard_weekly"}
           \/ event'.kind = "button" /\ ~startswith(event'.data, <<"l", "o", "g", "_">>)
           \/ ~event'.ok)
             => consumption' = consumption
      ]_vars

\* C8 witness: a full table, after which a leaderboard was asked by button.
C8_Witness ==
    /\ Len(consumption) >= 2
    /\ consumption[1].user_id = consumption[2].user_id
    /\ event.kind = "button" /\ event.data = LbDaily

\* C9: a leaderboard replies with the "nothing logged" sentence exactly when no
\* row lies in its window, never with a bare header, and otherwise with the
\* header and one line per user, numbered from 1 in the order of the result.
C9_NothingLoggedOrNumberedList ==
    IsLeaderboard =>
        /\ reply.text = <<IF IsWeekly THEN "No water consumption logged this week."
                          ELSE "No water consumption logged today.">>
             <=> InWindow = {}
        /\ Len(reply.text) = 1 => InWindow = {}
        /\ InWindow # {} =>
              /\ reply.text[1] = (IF IsWeekly THEN "Weekly Leaderboard (since Monday):"
                                  ELSE "Daily Leaderboard:")
              /\ Len(reply.text) = Cardinality(UsersIn(InWindow)) + 1
              /\ Len(fetched.rows) = Cardinality(UsersIn(InWindow))
              /\ \A i \in 1..Len(fetched.rows) :
                    reply.text[i + 1] = ToString(i) \o ". " \o fetched.rows[i].username
                        \o ": " \o FloatRepr(fetched.rows[i].total) \o " liters"

\* C9 witness: rows are stored, none of today, and the daily leaderboard says
\* that nothing was logged.
C9_Witness ==
    /\ IsDaily
    /\ consumption # <<>>
    /\ InWindow = {}
    /\ reply.text = <<"No water consumption logged today.">>

ButtonTokens == { <<"0", ".", "2", "5">>, <<"0", ".", "5">>, <<"1", ".", "0">> }

SameLog(r) ==
    /\ r.ok
    /\ consumption' = r.rows
    /\ sqlite_sequence' = r.seq
    /\ reply'.text = r.text

\* C10: a log button does to the table, and answers, what /log with the same
\* amount does from the same state and clock, and the other way round; and a
\* leaderboard button fetches and answers what the leaderboard command does.
C10_ButtonsEqualCommands ==
    [][/\ \A user \in AllUsers, token \in ButtonTokens :
             /\ (/\ event'.kind = "button" /\ event'.data = LogData(token)
                 /\ button_handler(user, LogData(token), utc, utc'))
                  => SameLog(log_water_result(consumption, sqlite_sequence, user,
                                              <<token>>, now))
             /\ (/\ event'.kind = "log" /\ event'.args = <<token>>
                 /\ log_water(user, <<token>>, utc, utc'))
                  => SameLog(button_log_result(consumption, sqlite_sequence, user,
                                               LogData(token), now))
       /\ (/\ event'.kind = "button" /\ event'.data = LbDaily
           /\ \E user \in AllUsers : button_handler(user, LbDaily, utc, utc'))
             => [fetched |-> fetched', message |-> reply'.text]
                    \in leaderboard_daily_result(consumption, now)
       /\ (event'.kind = "leaderboard_daily" /\ leaderboard_daily)
             => [fetched |-> fetched', message |-> reply'.text]
                    \in button_lb_daily_result(consumption, now)
       /\ (/\ event'.kind = "button" /\ event'.data = LbWeekly
           /\ \E user \in AllUsers : button_handler(user, LbWeekly, utc, utc'))
             => [fetched |-> fetched', message |-> reply'.text]
                    \in leaderboard_weekly_result(consumption, now)
       /\ (event'.kind = "leaderboard_weekly" /\ leaderboard_weekly)
             => [fetched |-> fetched', message |-> reply'.text]
                    \in button_lb_weekly_result(consumption, now)
      ]_vars

\* C10 witness: commands and buttons were mixed, and the weekly leaderboard
\* asked by button lists two users, one of them for a row of the day before.
C10_Witness ==
    /\ event.kind = "button" /\ event.data = LbWeekly
    /\ Len(fetched.rows) = 2
    /\ Len(reply.text) = 3
    /\ \E i \in 1..Len(consumption) : ReadStamp(consumption[i].date).day < Today

=============================================================================
